---- MODULE Spec2Model ----
(***************************************************************************)
(* Design-and-quotation pipeline of the R-102 calculator                   *)
(* (src/r102_engine.py): appliance nozzle rules, cylinder selection, BOM   *)
(* helpers, the hazard-area pipeline and the project aggregator.           *)
(*                                                                         *)
(* Lengths are whole millimetres.  A flow number handed to the cylinder    *)
(* selector is a numerator over FlowDen, so that fractional flow numbers   *)
(* are inputs too.  A tax rate is a pair num/den.  A Python dict is an     *)
(* insertion-ordered sequence of [code, qty] entries.  A call that raises  *)
(* ValueError returns [status |-> "raise", error |-> <which raise>].       *)
(***************************************************************************)
EXTENDS Integers, Sequences, FiniteSets, TLC

\* ------------------------------------------------------------------ bounds
FlowDen == 4
MaxFlow == 26
MaxQty == 2
MaxBoms == 2
MaxApps == 2
MaxAreas == 2

\* ------------------------------------------------------- enums (l. 11-26)
FRYER == "freidora"
GRIDDLE == "plancha"
RANGE_2B == "cocina 2 quemadores"
RANGE_4B == "cocina 4 quemadores"
ApplianceType == {FRYER, GRIDDLE, RANGE_2B, RANGE_4B}

SIMPLE == "simple"
DOUBLE == "doble"
V_BANK == "en V"
HoodFilterType == {SIMPLE, DOUBLE, V_BANK}

APPLIANCE_SPECIFIC == "appliance_specific"
OVERLAPPING == "overlapping"
DesignMode == {APPLIANCE_SPECIFIC, OVERLAPPING}

\* ------------------------------------------------------------- the catalog
Part(code, unit_price) == [code |-> code, unit_price |-> unit_price]

CatalogCodes ==
    {"79694", "79372", "429864", "429862", "423429", "423435", "423493",
     "439841", "439845", "439838", "439839", "439840", "KEXT-6L",
     "SERV-MONT-R102"}

PART_CATALOG ==
    [c \in CatalogCodes |->
        CASE c = "79694" -> Part(c, 250000)
          [] c = "79372" -> Part(c, 420000)
          [] c = "429864" -> Part(c, 180000)
          [] c = "429862" -> Part(c, 210000)
          [] c = "423429" -> Part(c, 90000)
          [] c = "423435" -> Part(c, 110000)
          [] c = "423493" -> Part(c, 130000)
          [] c = "439841" -> Part(c, 65000)
          [] c = "439845" -> Part(c, 55000)
          [] c = "439838" -> Part(c, 50000)
          [] c = "439839" -> Part(c, 50000)
          [] c = "439840" -> Part(c, 55000)
          [] c = "KEXT-6L" -> Part(c, 180000)
          [] c = "SERV-MONT-R102" -> Part(c, 350000)]

NozzleCodes == {"439839", "439838", "439840", "439845", "439841"}

NOZZLE_FLOW_NUMBER ==
    [c \in NozzleCodes |->
        CASE c = "439839" -> 1
          [] c = "439838" -> 1
          [] c = "439840" -> 2
          [] c = "439845" -> 2
          [] c = "439841" -> 3]

\* ---------------------------------------------------------------- helpers
Max(a, b) == IF a >= b THEN a ELSE b

\* math.ceil(n / d) for a positive d
Ceil(n, d) == -((-n) \div d)

Raise(what) == [status |-> "raise", error |-> what]

\* position of the entry of a dict for a key, 0 when the key is absent
DictIndex(d, code) ==
    IF \E i \in 1..Len(d) : d[i].code = code
    THEN CHOOSE i \in 1..Len(d) :
            d[i].code = code /\ \A j \in 1..(i - 1) : d[j].code # code
    ELSE 0

\* d.get(code, 0)
DictGet(d, code) ==
    IF DictIndex(d, code) = 0 THEN 0 ELSE d[DictIndex(d, code)].qty

\* d[code] = d.get(code, 0) + qty
DictAdd(d, code, qty) ==
    IF DictIndex(d, code) = 0
    THEN Append(d, [code |-> code, qty |-> qty])
    ELSE [d EXCEPT ![DictIndex(d, code)].qty = @ + qty]

\* ------------------------------------------------------------ BOM helpers
BOMItem(part, quantity) == [part |-> part, quantity |-> quantity]

BomIndex(bom, part_code) ==
    IF \E i \in 1..Len(bom) : bom[i].part.code = part_code
    THEN CHOOSE i \in 1..Len(bom) :
            bom[i].part.code = part_code
            /\ \A j \in 1..(i - 1) : bom[j].part.code # part_code
    ELSE 0

\* add_bom_item without the scan for an item of the same code
add_bom_item_always_appends(bom, part_code, qty) ==
    IF qty <= 0
    THEN [bom |-> bom, raised |-> FALSE]
    ELSE IF part_code \notin DOMAIN PART_CATALOG
    THEN [bom |-> bom, raised |-> TRUE]
    ELSE [bom |-> Append(bom, BOMItem(PART_CATALOG[part_code], qty)),
          raised |-> FALSE]

\* add_bom_item: the list after the call, and whether the call raised
add_bom_item(bom, part_code, qty) ==
    IF qty <= 0
    THEN [bom |-> bom, raised |-> FALSE]
    ELSE IF part_code \notin DOMAIN PART_CATALOG
    THEN [bom |-> bom, raised |-> TRUE]
    ELSE IF BomIndex(bom, part_code) # 0
    THEN [bom |-> [bom EXCEPT ![BomIndex(bom, part_code)].quantity = @ + qty],
          raised |-> FALSE]
    ELSE [bom |-> Append(bom, BOMItem(PART_CATALOG[part_code], qty)),
          raised |-> FALSE]

RECURSIVE Flatten(_)
Flatten(boms) ==
    IF boms = <<>> THEN <<>> ELSE Head(boms) \o Flatten(Tail(boms))

\* merge_boms works on BOMItem objects. `objects` holds them by identity:
\* first the items of the input lists, in order, then the items the loop
\* creates; `merged` holds the identities of the values of the dict, in
\* insertion order.
MergedIndex(st, code) ==
    IF \E k \in 1..Len(st.merged) : st.objects[st.merged[k]].part.code = code
    THEN CHOOSE k \in 1..Len(st.merged) :
            st.objects[st.merged[k]].part.code = code
    ELSE 0

\* the loop body overwriting the quantity of a code already merged
MergeItem_overwrites(st, id) ==
    LET item == st.objects[id]
        k == MergedIndex(st, item.part.code)
    IN IF k # 0
       THEN [st EXCEPT !.objects[st.merged[k]].quantity = item.quantity]
       ELSE [objects |-> Append(st.objects, BOMItem(item.part, item.quantity)),
             merged |-> Append(st.merged, Len(st.objects) + 1)]

\* the loop body ignoring an item whose code is already merged
MergeItem_keeps_first(st, id) ==
    LET item == st.objects[id]
        k == MergedIndex(st, item.part.code)
    IN IF k # 0
       THEN st
       ELSE [objects |-> Append(st.objects, BOMItem(item.part, item.quantity)),
             merged |-> Append(st.merged, Len(st.objects) + 1)]

\* the loop body storing the input item itself in the dict, not a copy
MergeItem_aliases(st, id) ==
    LET item == st.objects[id]
        k == MergedIndex(st, item.part.code)
    IN IF k # 0
       THEN [st EXCEPT !.objects[st.merged[k]].quantity = @ + item.quantity]
       ELSE [st EXCEPT !.merged = Append(@, id)]

\* the body of the inner loop of merge_boms for the input item `id`
MergeItem(st, id) ==
    LET item == st.objects[id]
        k == MergedIndex(st, item.part.code)
    IN IF k # 0
       THEN [st EXCEPT !.objects[st.merged[k]].quantity = @ + item.quantity]
       ELSE [objects |-> Append(st.objects, BOMItem(item.part, item.quantity)),
             merged |-> Append(st.merged, Len(st.objects) + 1)]

RECURSIVE MergeItems(_, _, _)
MergeItems(st, id, last) ==
    IF id > last THEN st
    ELSE MergeItems(MergeItem(st, id), id + 1, last)

\* the two loops of merge_boms over all the items of all the lists
MergeLoop(boms) ==
    MergeItems([objects |-> Flatten(boms), merged |-> <<>>],
               1, Len(Flatten(boms)))

\* list(merged.values())
merge_boms(boms) ==
    LET st == MergeLoop(boms)
    IN [k \in 1..Len(st.merged) |-> st.objects[st.merged[k]]]

\* the input lists as they read once merge_boms has returned
ListsAfterMerge(boms) ==
    LET st == MergeLoop(boms)
    IN [i \in 1..Len(boms) |->
           [j \in 1..Len(boms[i]) |->
               st.objects[Len(Flatten(SubSeq(boms, 1, i - 1))) + j]]]

\* sum(item.part.unit_price * item.quantity for item in bom)
RECURSIVE BomSubtotal(_)
BomSubtotal(bom) ==
    IF bom = <<>> THEN 0
    ELSE Head(bom).part.unit_price * Head(bom).quantity + BomSubtotal(Tail(bom))

\* round(subtotal * iva_rate, 0): nearest whole unit, a tie to the even one
RoundTax(subtotal, iva_rate) ==
    LET n == subtotal * iva_rate.num
        q == n \div iva_rate.den
        r == n % iva_rate.den
    IN IF 2 * r < iva_rate.den THEN q
       ELSE IF 2 * r > iva_rate.den THEN q + 1
       ELSE IF q % 2 = 0 THEN q ELSE q + 1

\* the quote with the tax truncated instead of rounded
QuoteResult_truncates(bom, iva_rate) ==
    LET subtotal == BomSubtotal(bom)
        iva_amount == (subtotal * iva_rate.num) \div iva_rate.den
    IN [bom |-> bom, subtotal |-> subtotal, iva_rate |-> iva_rate,
        iva_amount |-> iva_amount, total |-> subtotal + iva_amount]

QuoteResult(bom, iva_rate) ==
    LET subtotal == BomSubtotal(bom)
        iva_amount == RoundTax(subtotal, iva_rate)
    IN [bom |-> bom, subtotal |-> subtotal, iva_rate |-> iva_rate,
        iva_amount |-> iva_amount, total |-> subtotal + iva_amount]

\* ------------------------------------------------- appliance nozzle rules
Appliance(tipo, ancho, fondo, altura_sup, altura_boq, pos_inicio, vats) ==
    [tipo |-> tipo, ancho_mm |-> ancho, fondo_mm |-> fondo,
     altura_superficie_mm |-> altura_sup,
     altura_boquilla_sobre_superficie_mm |-> altura_boq,
     pos_inicio_mm |-> pos_inicio, num_vats |-> vats]

\* Inputs of the modelled ranges whose double-precision quotient
\* area / max_area lands one ulp above a whole number, so that math.ceil
\* returns one more than the exact quotient: <<ancho, fondo, bateas>>.
FryerQuotientOvershoots ==
    {<<1195, 400, 0>>, <<1195, 400, 1>>, <<1195, 400, 2>>, <<1195, 900, 2>>}

GriddleQuotientOvershoots == {<<400, 900>>, <<900, 400>>}

design_fryer_nozzles(app) ==
    LET vats == Max(1, app.num_vats)
        area == app.ancho_mm * app.fondo_mm * vats
        lado_mas_largo == Max(app.ancho_mm, app.fondo_mm)
        exact == Ceil(area, 239000)
        base_nozzles ==
            IF <<app.ancho_mm, app.fondo_mm, app.num_vats>>
                   \in FryerQuotientOvershoots
            THEN exact + 1 ELSE exact
    IN IF lado_mas_largo > 644
       THEN <<[code |-> "439841", qty |-> base_nozzles * 2]>>
       ELSE <<[code |-> "439841", qty |-> base_nozzles]>>

design_griddle_nozzles(app) ==
    LET area == app.ancho_mm * app.fondo_mm
        exact == Ceil(area, 360000)
        base_nozzles ==
            IF <<app.ancho_mm, app.fondo_mm>> \in GriddleQuotientOvershoots
            THEN exact + 1 ELSE exact
    IN <<[code |-> "439845", qty |-> base_nozzles]>>

design_range_nozzles(app) ==
    IF app.tipo = RANGE_2B THEN <<[code |-> "439845", qty |-> 1]>>
    ELSE IF app.tipo = RANGE_4B THEN <<[code |-> "439845", qty |-> 2]>>
    ELSE <<>>

\* the dispatch with an appliance whose nozzle height is below the advised
\* range left without nozzles
ApplianceNozzles_skips_low_nozzle(app) ==
    IF app.altura_boquilla_sobre_superficie_mm < 800 THEN <<>>
    ELSE IF app.tipo = FRYER THEN design_fryer_nozzles(app)
    ELSE IF app.tipo = GRIDDLE THEN design_griddle_nozzles(app)
    ELSE IF app.tipo \in {RANGE_2B, RANGE_4B} THEN design_range_nozzles(app)
    ELSE <<>>

\* the dispatch on app.tipo in design_r102_system
ApplianceNozzles(app) ==
    IF app.tipo = FRYER THEN design_fryer_nozzles(app)
    ELSE IF app.tipo = GRIDDLE THEN design_griddle_nozzles(app)
    ELSE IF app.tipo \in {RANGE_2B, RANGE_4B} THEN design_range_nozzles(app)
    ELSE <<>>

\* ------------------------------------------------------ cylinder selector
CylinderConfig(n15, n30, cartridge) ==
    [status |-> "ok", num_cylinders_15 |-> n15, num_cylinders_30 |-> n30,
     cartridge_code |-> cartridge]

\* the selector with the boundary at 11 moved to the dual configuration
select_dual_from_11(total_flow_number) ==
    IF 1 * FlowDen <= total_flow_number /\ total_flow_number <= 5 * FlowDen
    THEN CylinderConfig(1, 0, "423429")
    ELSE IF 6 * FlowDen <= total_flow_number /\ total_flow_number < 11 * FlowDen
    THEN CylinderConfig(0, 1, "423435")
    ELSE IF 11 * FlowDen <= total_flow_number /\ total_flow_number <= 16 * FlowDen
    THEN CylinderConfig(1, 1, "423493")
    ELSE IF 16 * FlowDen < total_flow_number /\ total_flow_number <= 22 * FlowDen
    THEN CylinderConfig(0, 2, "423493")
    ELSE Raise("flow_number_range")

\* the selector without the upper limit of its last range
select_without_upper_limit(total_flow_number) ==
    IF 1 * FlowDen <= total_flow_number /\ total_flow_number <= 5 * FlowDen
    THEN CylinderConfig(1, 0, "423429")
    ELSE IF 6 * FlowDen <= total_flow_number /\ total_flow_number <= 11 * FlowDen
    THEN CylinderConfig(0, 1, "423435")
    ELSE IF 11 * FlowDen < total_flow_number /\ total_flow_number <= 16 * FlowDen
    THEN CylinderConfig(1, 1, "423493")
    ELSE IF 16 * FlowDen < total_flow_number
    THEN CylinderConfig(0, 2, "423493")
    ELSE Raise("flow_number_range")

\* total_flow_number is the numerator of a flow number over FlowDen
select_cylinders_and_cartridge(total_flow_number) ==
    IF 1 * FlowDen <= total_flow_number /\ total_flow_number <= 5 * FlowDen
    THEN CylinderConfig(1, 0, "423429")
    ELSE IF 6 * FlowDen <= total_flow_number /\ total_flow_number <= 11 * FlowDen
    THEN CylinderConfig(0, 1, "423435")
    ELSE IF 11 * FlowDen < total_flow_number /\ total_flow_number <= 16 * FlowDen
    THEN CylinderConfig(1, 1, "423493")
    ELSE IF 16 * FlowDen < total_flow_number /\ total_flow_number <= 22 * FlowDen
    THEN CylinderConfig(0, 2, "423493")
    ELSE Raise("flow_number_range")

\* ------------------------------------------------ hazard-area pipeline
Hood(largo_mm, fondo_mm, altura_suelo_mm, filtro, num_ductos) ==
    [largo_mm |-> largo_mm, fondo_mm |-> fondo_mm,
     altura_suelo_mm |-> altura_suelo_mm, filtro |-> filtro,
     num_ductos |-> num_ductos]

Duct(perimetro_mm, cantidad) ==
    [perimetro_mm |-> perimetro_mm, cantidad |-> cantidad]

DesignInput(hood, duct, appliances, servicio, ext_k, cant_k, mode, nombre) ==
    [hood |-> hood, duct |-> duct, appliances |-> appliances,
     incluir_servicio_montaje |-> servicio, incluir_extintor_k |-> ext_k,
     cantidad_extintores_k |-> cant_k, design_mode |-> mode,
     nombre_area |-> nombre]

Warning(check, i) == [check |-> check, appliance |-> i]

\* the checks of one appliance without the upper bound of the clearance
ApplianceWarnings_no_upper_clearance(hood, app, i) ==
    LET clearance == hood.altura_suelo_mm - app.altura_superficie_mm
        fin_equipo == app.pos_inicio_mm + app.ancho_mm
    IN (IF ~(800 <= app.altura_boquilla_sobre_superficie_mm
             /\ app.altura_boquilla_sobre_superficie_mm <= 1500)
        THEN <<Warning("altura_boquilla", i)>> ELSE <<>>)
       \o (IF clearance < 400
           THEN <<Warning("distancia_campana", i)>> ELSE <<>>)
       \o (IF app.pos_inicio_mm < 0 \/ fin_equipo > hood.largo_mm
           THEN <<Warning("fuera_de_campana", i)>> ELSE <<>>)

\* step 1 for one appliance: its warnings, in the order of the three checks
ApplianceWarnings(hood, app, i) ==
    LET clearance == hood.altura_suelo_mm - app.altura_superficie_mm
        fin_equipo == app.pos_inicio_mm + app.ancho_mm
    IN (IF ~(800 <= app.altura_boquilla_sobre_superficie_mm
             /\ app.altura_boquilla_sobre_superficie_mm <= 1500)
        THEN <<Warning("altura_boquilla", i)>> ELSE <<>>)
       \o (IF clearance < 400 \/ clearance > 1500
           THEN <<Warning("distancia_campana", i)>> ELSE <<>>)
       \o (IF app.pos_inicio_mm < 0 \/ fin_equipo > hood.largo_mm
           THEN <<Warning("fuera_de_campana", i)>> ELSE <<>>)

RECURSIVE ValidationWarnings(_, _, _)
ValidationWarnings(hood, appliances, i) ==
    IF i > Len(appliances) THEN <<>>
    ELSE ApplianceWarnings(hood, appliances[i], i)
         \o ValidationWarnings(hood, appliances, i + 1)

RECURSIVE DictAddAll(_, _)
DictAddAll(nozzle_counts, noz) ==
    IF noz = <<>> THEN nozzle_counts
    ELSE DictAddAll(DictAdd(nozzle_counts, Head(noz).code, Head(noz).qty),
                    Tail(noz))

RECURSIVE ApplianceSpecificNozzles(_, _)
ApplianceSpecificNozzles(nozzle_counts, appliances) ==
    IF appliances = <<>> THEN nozzle_counts
    ELSE ApplianceSpecificNozzles(
             DictAddAll(nozzle_counts, ApplianceNozzles(Head(appliances))),
             Tail(appliances))

\* Hood lengths of the modelled range for which the double-precision
\* quotient (largo_mm / 1000.0) / 0.6 lands one ulp above a whole number.
OverlapQuotientOvershoots == {4200, 5400}

OverlappingNozzles(hood) ==
    LET exact == Ceil(hood.largo_mm, 600)
        ceiled == IF hood.largo_mm \in OverlapQuotientOvershoots
                  THEN exact + 1 ELSE exact
    IN Max(1, ceiled)

\* step 2
ApplianceZoneStep(design_input) ==
    IF design_input.design_mode = APPLIANCE_SPECIFIC
    THEN ApplianceSpecificNozzles(<<>>, design_input.appliances)
    ELSE DictAdd(<<>>, "439845", OverlappingNozzles(design_input.hood))

Ok(value) == [status |-> "ok", value |-> value]

\* the duct step without the upper limit of the perimeter
DuctStep_without_limit(nozzle_counts, duct) ==
    IF duct.perimetro_mm > 0 /\ duct.cantidad > 0
    THEN IF duct.perimetro_mm <= 1270
         THEN Ok(DictAdd(nozzle_counts, "439839", duct.cantidad))
         ELSE Ok(DictAdd(nozzle_counts, "439840", duct.cantidad))
    ELSE Ok(nozzle_counts)

\* the duct step with 1270 mm excluded from the small-duct range
DuctStep_1270_exclusive(nozzle_counts, duct) ==
    IF duct.perimetro_mm > 0 /\ duct.cantidad > 0
    THEN IF duct.perimetro_mm < 1270
         THEN Ok(DictAdd(nozzle_counts, "439839", duct.cantidad))
         ELSE IF duct.perimetro_mm <= 2540
         THEN Ok(DictAdd(nozzle_counts, "439840", duct.cantidad))
         ELSE Raise("duct_perimeter")
    ELSE Ok(nozzle_counts)

\* step 3: the dict after the duct step, or the raise
DuctStep(nozzle_counts, duct) ==
    IF duct.perimetro_mm > 0 /\ duct.cantidad > 0
    THEN IF duct.perimetro_mm <= 1270
         THEN Ok(DictAdd(nozzle_counts, "439839", duct.cantidad))
         ELSE IF duct.perimetro_mm <= 2540
         THEN Ok(DictAdd(nozzle_counts, "439840", duct.cantidad))
         ELSE Raise("duct_perimeter")
    ELSE Ok(nozzle_counts)

\* the hood step without the minimum of one plenum nozzle
HoodStep_without_minimum(nozzle_counts, hood) ==
    LET num_hood_nozzles == Ceil(hood.largo_mm, 3000)
    IN DictAdd(nozzle_counts, "439838",
               IF hood.filtro = V_BANK THEN num_hood_nozzles + 1
               ELSE num_hood_nozzles)

\* step 4
HoodStep(nozzle_counts, hood) ==
    LET num_hood_nozzles == Max(1, Ceil(hood.largo_mm, 3000))
    IN DictAdd(nozzle_counts, "439838",
               IF hood.filtro = V_BANK THEN num_hood_nozzles + 1
               ELSE num_hood_nozzles)

\* step 5: the total, or the raise for a code without a flow number
RECURSIVE TotalFlow(_)
TotalFlow(nozzle_counts) ==
    IF nozzle_counts = <<>> THEN Ok(0)
    ELSE IF Head(nozzle_counts).code \notin DOMAIN NOZZLE_FLOW_NUMBER
    THEN Raise("no_flow_number")
    ELSE LET rest == TotalFlow(Tail(nozzle_counts))
         IN IF rest.status = "raise" THEN rest
            ELSE Ok(NOZZLE_FLOW_NUMBER[Head(nozzle_counts).code]
                        * Head(nozzle_counts).qty + rest.value)

\* the add_bom_item calls with one agent item per cylinder size, whatever
\* the number of cylinders
BomCalls_single_agent(design_input, nozzle_counts, cyl_cfg) ==
    nozzle_counts
    \o (IF cyl_cfg.num_cylinders_15 # 0
        THEN <<[code |-> "429864", qty |-> cyl_cfg.num_cylinders_15],
               [code |-> "79694", qty |-> 1]>>
        ELSE <<>>)
    \o (IF cyl_cfg.num_cylinders_30 # 0
        THEN <<[code |-> "429862", qty |-> cyl_cfg.num_cylinders_30],
               [code |-> "79372", qty |-> 1]>>
        ELSE <<>>)
    \o <<[code |-> cyl_cfg.cartridge_code, qty |-> 1]>>
    \o (IF design_input.incluir_servicio_montaje
        THEN <<[code |-> "SERV-MONT-R102", qty |-> 1]>> ELSE <<>>)
    \o (IF design_input.incluir_extintor_k
           /\ design_input.cantidad_extintores_k > 0
        THEN <<[code |-> "KEXT-6L",
                qty |-> design_input.cantidad_extintores_k]>>
        ELSE <<>>)

\* steps 7-11: the add_bom_item calls, in order
BomCalls(design_input, nozzle_counts, cyl_cfg) ==
    nozzle_counts
    \o (IF cyl_cfg.num_cylinders_15 # 0
        THEN <<[code |-> "429864", qty |-> cyl_cfg.num_cylinders_15],
               [code |-> "79694", qty |-> cyl_cfg.num_cylinders_15]>>
        ELSE <<>>)
    \o (IF cyl_cfg.num_cylinders_30 # 0
        THEN <<[code |-> "429862", qty |-> cyl_cfg.num_cylinders_30],
               [code |-> "79372", qty |-> cyl_cfg.num_cylinders_30]>>
        ELSE <<>>)
    \o <<[code |-> cyl_cfg.cartridge_code, qty |-> 1]>>
    \o (IF design_input.incluir_servicio_montaje
        THEN <<[code |-> "SERV-MONT-R102", qty |-> 1]>> ELSE <<>>)
    \o (IF design_input.incluir_extintor_k
           /\ design_input.cantidad_extintores_k > 0
        THEN <<[code |-> "KEXT-6L",
                qty |-> design_input.cantidad_extintores_k]>>
        ELSE <<>>)

RECURSIVE AddAll(_, _)
AddAll(bom, calls) ==
    IF calls = <<>> THEN [bom |-> bom, raised |-> FALSE]
    ELSE LET r == add_bom_item(bom, Head(calls).code, Head(calls).qty)
         IN IF r.raised THEN r ELSE AddAll(r.bom, Tail(calls))

design_r102_system(design_input, iva_rate) ==
    LET warnings == ValidationWarnings(design_input.hood,
                                       design_input.appliances, 1)
        zone == ApplianceZoneStep(design_input)
        ducted == DuctStep(zone, design_input.duct)
    IN IF ducted.status = "raise" THEN ducted
       ELSE
       LET nozzle_counts == HoodStep(ducted.value, design_input.hood)
           flowed == TotalFlow(nozzle_counts)
           total_flow == flowed.value
       IN IF flowed.status = "raise" THEN flowed
          ELSE
          LET cyl_cfg == select_cylinders_and_cartridge(total_flow * FlowDen)
          IN IF cyl_cfg.status = "raise" THEN cyl_cfg
             ELSE
             LET built == AddAll(<<>>, BomCalls(design_input, nozzle_counts,
                                                cyl_cfg))
             IN IF built.raised THEN Raise("part_code")
                ELSE [status |-> "ok",
                      quote |-> QuoteResult(built.bom, iva_rate),
                      total_flow_number |-> total_flow,
                      nozzle_breakdown |-> nozzle_counts,
                      cylinder_config |-> cyl_cfg,
                      warnings |-> warnings,
                      nombre_area |-> design_input.nombre_area]

\* ------------------------------------------------------ project aggregator
ProjectInput(nombre_proyecto, nombre_cliente, hazard_areas, iva_rate) ==
    [nombre_proyecto |-> nombre_proyecto, nombre_cliente |-> nombre_cliente,
     hazard_areas |-> hazard_areas, iva_rate |-> iva_rate]

\* the loop over the hazard areas with the tax rate left at the default of
\* design_r102_system
RECURSIVE AreaResults_default_rate(_, _, _)
AreaResults_default_rate(area_results, hazard_areas, iva_rate) ==
    IF hazard_areas = <<>> THEN [status |-> "ok", areas |-> area_results]
    ELSE LET result == design_r102_system(Head(hazard_areas),
                                          [num |-> 19, den |-> 100])
         IN IF result.status = "raise" THEN result
            ELSE AreaResults_default_rate(Append(area_results, result),
                                          Tail(hazard_areas), iva_rate)

\* the loop over the hazard areas with a failed area left out
RECURSIVE AreaResults_skips_failed(_, _, _)
AreaResults_skips_failed(area_results, hazard_areas, iva_rate) ==
    IF hazard_areas = <<>> THEN [status |-> "ok", areas |-> area_results]
    ELSE LET result == design_r102_system(Head(hazard_areas), iva_rate)
         IN AreaResults_skips_failed(
                IF result.status = "raise" THEN area_results
                ELSE Append(area_results, result),
                Tail(hazard_areas), iva_rate)

\* the loop over the hazard areas: the results so far, or the first raise
RECURSIVE AreaResults(_, _, _)
AreaResults(area_results, hazard_areas, iva_rate) ==
    IF hazard_areas = <<>> THEN [status |-> "ok", areas |-> area_results]
    ELSE LET result == design_r102_system(Head(hazard_areas), iva_rate)
         IN IF result.status = "raise" THEN result
            ELSE AreaResults(Append(area_results, result),
                             Tail(hazard_areas), iva_rate)

\* design_project with the project tax taken as the sum of the areas' taxes
design_project_adds_area_taxes(project_input) ==
    LET looped == AreaResults(<<>>, project_input.hazard_areas,
                              project_input.iva_rate)
    IN IF looped.status = "raise" THEN looped
       ELSE
       LET all_boms == [i \in 1..Len(looped.areas) |->
                            looped.areas[i].quote.bom]
           bom_global == merge_boms(all_boms)
           boms_after == ListsAfterMerge(all_boms)
           subtotal == BomSubtotal(bom_global)
           iva_amount == BomSubtotal(
               [i \in 1..Len(looped.areas) |->
                   BOMItem([unit_price |-> looped.areas[i].quote.iva_amount],
                           1)])
       IN [status |-> "ok",
           nombre_proyecto |-> project_input.nombre_proyecto,
           nombre_cliente |-> project_input.nombre_cliente,
           areas |-> [i \in 1..Len(looped.areas) |->
                         [looped.areas[i] EXCEPT !.quote.bom = boms_after[i]]],
           quote_global |-> [bom |-> bom_global, subtotal |-> subtotal,
                             iva_rate |-> project_input.iva_rate,
                             iva_amount |-> iva_amount,
                             total |-> subtotal + iva_amount]]

design_project(project_input) ==
    LET looped == AreaResults(<<>>, project_input.hazard_areas,
                              project_input.iva_rate)
    IN IF looped.status = "raise" THEN looped
       ELSE
       LET all_boms == [i \in 1..Len(looped.areas) |->
                            looped.areas[i].quote.bom]
           bom_global == merge_boms(all_boms)
           boms_after == ListsAfterMerge(all_boms)
       IN [status |-> "ok",
           nombre_proyecto |-> project_input.nombre_proyecto,
           nombre_cliente |-> project_input.nombre_cliente,
           areas |-> [i \in 1..Len(looped.areas) |->
                         [looped.areas[i] EXCEPT !.quote.bom = boms_after[i]]],
           quote_global |-> QuoteResult(bom_global, project_input.iva_rate)]

\* ============================================================ the state
\* entry: which entry point of the engine the run exercises.
\* total_flow_number, cylinder_config: argument and result of the selector.
\* rule_call, rule_app, rule_noz: nozzle rule called, its argument, result.
\* boms, call, merged: the BOM lists built so far, the last helper call,
\*   and the list returned by merge_boms (held until the next call).
\* design_input, design_output: argument and result of design_r102_system.
\* project_input, project_output: argument and result of design_project.
VARIABLES entry, total_flow_number, cylinder_config,
          rule_call, rule_app, rule_noz,
          boms, call, merged,
          design_input, design_output,
          project_input, project_output

vars == <<entry, total_flow_number, cylinder_config, rule_call, rule_app,
          rule_noz, boms, call, merged, design_input, design_output,
          project_input, project_output>>

selVars == <<total_flow_number, cylinder_config>>
ruleVars == <<rule_call, rule_app, rule_noz>>
bomVars == <<boms, call, merged>>
areaVars == <<design_input, design_output>>
projectVars == <<project_input, project_output>>

Idle == [status |-> "idle"]

\* ------------------------------------------------------------ input sets
FlowNumbers == (0 - FlowDen)..(MaxFlow * FlowDen)

\* 0 %, 19 % (the default) and 2^-14, a rate whose products with the
\* catalog prices are exact in double precision and are not whole
Rates == {[num |-> 0, den |-> 100], [num |-> 19, den |-> 100],
          [num |-> 1, den |-> 16384]}

Anchos == {0, 300, 400, 644, 645, 660, 900, 1195}
Fondos == {0, 400, 600, 644, 711, 900}
Vats == {0, 1, 2}

RuleAppliances ==
    {Appliance(t, w, d, 900, 1100, 0, v) :
        t \in ApplianceType, w \in Anchos, d \in Fondos, v \in Vats}

BomCodes == {"SERV-MONT-R102", "423493", "NO-CATALOGADO"}
BomQuantities == (0 - 1)..MaxQty

\* <<largo, altura_suelo, filtro>>
HoodChoices ==
    {<<3000, 2100, SIMPLE>>, <<3000, 2401, SIMPLE>>, <<1000, 2100, DOUBLE>>,
     <<6000, 2100, SIMPLE>>, <<4200, 2100, V_BANK>>, <<0, 2100, SIMPLE>>}

\* <<perimetro, cantidad>>
DuctChoices ==
    {<<0, 1>>, <<1200, 1>>, <<1270, 2>>, <<1271, 1>>, <<2540, 2>>,
     <<2541, 1>>, <<3000, 0>>, <<3000, 1>>}

\* <<servicio, extintor_k, cantidad_k, mode, nombre_area>>
OptionChoices ==
    {<<TRUE, TRUE, 1, APPLIANCE_SPECIFIC, "Campana 1">>,
     <<FALSE, TRUE, 2, APPLIANCE_SPECIFIC, "">>,
     <<FALSE, TRUE, 0, APPLIANCE_SPECIFIC, "">>,
     <<TRUE, TRUE, 2, OVERLAPPING, "Campana 2">>,
     <<FALSE, FALSE, 1, OVERLAPPING, "">>}

FreidoraDoble == Appliance(FRYER, 660, 711, 900, 1100, 200, 2)
Plancha == Appliance(GRIDDLE, 900, 600, 900, 1100, 1000, 1)
FreidoraChica == Appliance(FRYER, 400, 500, 600, 1100, 0, 1)
FreidoraSinAncho == Appliance(FRYER, 0, 600, 900, 1100, 0, 1)
Cocina2 == Appliance(RANGE_2B, 600, 600, 900, 800, 0, 1)
Cocina2Baja == Appliance(RANGE_2B, 600, 600, 900, 799, 0 - 100, 1)
Cocina4AlBorde == Appliance(RANGE_4B, 900, 600, 1700, 1500, 2100, 1)
PlanchaAlta == Appliance(GRIDDLE, 400, 900, 1701, 1501, 2601, 1)

AreaAppliances ==
    {FreidoraDoble, Plancha, FreidoraChica, FreidoraSinAncho, Cocina2,
     Cocina2Baja, Cocina4AlBorde, PlanchaAlta}

MakeInput(h, d, o, appliances) ==
    DesignInput(Hood(h[1], 1200, h[2], h[3], d[2]), Duct(d[1], d[2]),
                appliances, o[1], o[2], o[3], o[4], o[5])

AreaStarts ==
    {MakeInput(h, d, o, <<>>) :
        h \in HoodChoices, d \in DuctChoices, o \in OptionChoices}

ProjectAreas ==
    {MakeInput(h, d, o, a) :
        h \in {<<3000, 2100, SIMPLE>>, <<4200, 2100, V_BANK>>},
        d \in {<<1200, 1>>, <<3000, 1>>},
        o \in {<<TRUE, TRUE, 1, APPLIANCE_SPECIFIC, "Campana 1">>,
               <<FALSE, FALSE, 1, OVERLAPPING, "">>},
        a \in {<<>>, <<Cocina2>>, <<FreidoraChica, Plancha>>,
               <<FreidoraDoble>>}}

\* ----------------------------------------------------------------- Init
Start ==
    /\ total_flow_number = 0
    /\ cylinder_config = Idle
    /\ rule_call = "none"
    /\ rule_app = Idle
    /\ rule_noz = <<>>
    /\ boms = <<>>
    /\ call = [op |-> "none"]
    /\ merged = Idle
    /\ design_output = Idle
    /\ project_output = Idle

InitSel ==
    /\ entry = "select_cylinders_and_cartridge"
    /\ Start
    /\ design_input = Idle
    /\ project_input = Idle

InitRules ==
    /\ entry = "nozzle_rules"
    /\ Start
    /\ design_input = Idle
    /\ project_input = Idle

InitBom ==
    /\ entry = "bom_helpers"
    /\ Start
    /\ design_input = Idle
    /\ project_input = Idle

InitArea ==
    /\ entry = "design_r102_system"
    /\ Start
    /\ design_input \in AreaStarts
    /\ project_input = Idle

InitProject ==
    /\ entry = "design_project"
    /\ Start
    /\ design_input = Idle
    /\ \E r \in Rates :
         project_input = ProjectInput("Restaurante Demo", "Cliente X", <<>>, r)

\* -------------------------------------------------------------- actions
\* a call of select_cylinders_and_cartridge(f / FlowDen)
Select(f) ==
    /\ entry = "select_cylinders_and_cartridge"
    /\ total_flow_number' = f
    /\ cylinder_config' = select_cylinders_and_cartridge(f)
    /\ UNCHANGED <<entry, ruleVars, bomVars, areaVars, projectVars>>

\* a call of one of the three nozzle rules
CallRule(rule, app, noz) ==
    /\ entry = "nozzle_rules"
    /\ rule_call' = rule
    /\ rule_app' = app
    /\ rule_noz' = noz
    /\ UNCHANGED <<entry, selVars, bomVars, areaVars, projectVars>>

FryerRule(app) == CallRule("design_fryer_nozzles", app,
                           design_fryer_nozzles(app))

GriddleRule(app) == CallRule("design_griddle_nozzles", app,
                             design_griddle_nozzles(app))

RangeRule(app) == CallRule("design_range_nozzles", app,
                           design_range_nozzles(app))

\* bom: List[BOMItem] = []
NewBom ==
    /\ entry = "bom_helpers"
    /\ Len(boms) < MaxBoms
    /\ boms' = Append(boms, <<>>)
    /\ call' = [op |-> "new"]
    /\ merged' = Idle
    /\ UNCHANGED <<entry, selVars, ruleVars, areaVars, projectVars>>

QuantityOf(bom, code) ==
    IF BomIndex(bom, code) = 0 THEN 0 ELSE bom[BomIndex(bom, code)].quantity

\* add_bom_item(bom, code, qty) on the list under construction, the last one
AddBomItem(code, qty) ==
    /\ entry = "bom_helpers"
    /\ boms # <<>>
    /\ QuantityOf(boms[Len(boms)], code) + qty <= MaxQty
    /\ LET r == add_bom_item(boms[Len(boms)], code, qty)
       IN /\ boms' = [boms EXCEPT ![Len(boms)] = r.bom]
          /\ call' = [op |-> "add_bom_item", qty |-> qty,
                      raised |-> r.raised]
    /\ merged' = Idle
    /\ UNCHANGED <<entry, selVars, ruleVars, areaVars, projectVars>>

\* merge_boms(boms)
MergeBoms ==
    /\ entry = "bom_helpers"
    /\ merged' = [status |-> "returned", bom |-> merge_boms(boms)]
    /\ boms' = ListsAfterMerge(boms)
    /\ call' = [op |-> "merge_boms"]
    /\ UNCHANGED <<entry, selVars, ruleVars, areaVars, projectVars>>

\* one more appliance under the hood of the hazard area
AddAppliance(app) ==
    /\ entry = "design_r102_system"
    /\ Len(design_input.appliances) < MaxApps
    /\ design_input' =
           [design_input EXCEPT !.appliances = Append(@, app)]
    /\ design_output' = Idle
    /\ UNCHANGED <<entry, selVars, ruleVars, bomVars, projectVars>>

\* design_r102_system(design_input, iva_rate)
Design(iva_rate) ==
    /\ entry = "design_r102_system"
    /\ design_output' = design_r102_system(design_input, iva_rate)
    /\ UNCHANGED <<entry, design_input, selVars, ruleVars, bomVars,
                   projectVars>>

\* one more hazard area in the project
AddHazardArea(area) ==
    /\ entry = "design_project"
    /\ Len(project_input.hazard_areas) < MaxAreas
    /\ project_input' =
           [project_input EXCEPT !.hazard_areas = Append(@, area)]
    /\ project_output' = Idle
    /\ UNCHANGED <<entry, selVars, ruleVars, bomVars, areaVars>>

\* design_project(project_input)
DesignProject ==
    /\ entry = "design_project"
    /\ project_output' = design_project(project_input)
    /\ UNCHANGED <<entry, project_input, selVars, ruleVars, bomVars,
                   areaVars>>

\* ------------------------------------------------------- specifications
NextSel == \E f \in FlowNumbers : Select(f)

NextRules ==
    \E app \in RuleAppliances :
        \/ FryerRule(app)
        \/ GriddleRule(app)
        \/ RangeRule(app)

NextBom ==
    \/ NewBom
    \/ \E code \in BomCodes, qty \in BomQuantities : AddBomItem(code, qty)
    \/ MergeBoms

NextArea ==
    \/ \E app \in AreaAppliances : AddAppliance(app)
    \/ \E r \in Rates : Design(r)

NextProject ==
    \/ \E area \in ProjectAreas : AddHazardArea(area)
    \/ DesignProject

SpecSel == InitSel /\ [][NextSel]_vars
SpecRules == InitRules /\ [][NextRules]_vars
SpecBom == InitBom /\ [][NextBom]_vars
SpecArea == InitArea /\ [][NextArea]_vars
SpecProject == InitProject /\ [][NextProject]_vars
SpecSelArea == (InitSel \/ InitArea) /\ [][NextSel \/ NextArea]_vars

Init == InitSel \/ InitRules \/ InitBom \/ InitArea \/ InitProject
Next == NextSel \/ NextRules \/ NextBom \/ NextArea \/ NextProject
Spec == Init /\ [][Next]_vars

\* ============================================================== claims

ScenarioA ==
    MakeInput(<<3000, 2100, SIMPLE>>, <<1200, 1>>,
              <<TRUE, TRUE, 1, APPLIANCE_SPECIFIC, "Campana 1">>,
              <<FreidoraDoble, Plancha>>)

\* C1: the pipeline run on Scenario A succeeds with 4 fryer nozzles, 2
\* griddle/range nozzles, 1 small-duct nozzle, 1 plenum nozzle, total flow
\* number 18 and the configuration 0 small + 2 large, dual cartridge.
C1_ScenarioAYieldsFlow18 ==
    (design_input = ScenarioA /\ design_output # Idle)
    => /\ design_output.status = "ok"
       /\ design_output.nozzle_breakdown =
              <<[code |-> "439841", qty |-> 4], [code |-> "439845", qty |-> 2],
                [code |-> "439839", qty |-> 1], [code |-> "439838", qty |-> 1]>>
       /\ design_output.total_flow_number = 18
       /\ design_output.cylinder_config = CylinderConfig(0, 2, "423493")

InRange(f) == 1 * FlowDen <= f /\ f <= 22 * FlowDen

\* C2: for every flow number f with 1 <= f <= 22, whole or fractional, the
\* selector returns a configuration (it never fails).
C2_EveryFlowInRangeSelects ==
    (cylinder_config # Idle /\ InRange(total_flow_number))
    => cylinder_config.status = "ok"

\* C3: the selector follows the range table with its exact bounds:
\* [1,5] -> 1 small, 423429; [6,11] -> 1 large, 423435;
\* (11,16] -> 1 small + 1 large, 423493; (16,22] -> 2 large, 423493.
C3_RangeTable ==
    cylinder_config # Idle
    => LET f == total_flow_number
       IN /\ (1 * FlowDen <= f /\ f <= 5 * FlowDen)
                => cylinder_config = CylinderConfig(1, 0, "423429")
          /\ (6 * FlowDen <= f /\ f <= 11 * FlowDen)
                => cylinder_config = CylinderConfig(0, 1, "423435")
          /\ (11 * FlowDen < f /\ f <= 16 * FlowDen)
                => cylinder_config = CylinderConfig(1, 1, "423493")
          /\ (16 * FlowDen < f /\ f <= 22 * FlowDen)
                => cylinder_config = CylinderConfig(0, 2, "423493")

\* the selector was called with the least modelled flow number above 11
C3_JustAbove11 ==
    /\ total_flow_number = 11 * FlowDen + 1
    /\ cylinder_config = CylinderConfig(1, 1, "423493")

\* the total flow the pipeline accumulates for an input that passes the
\* duct step (steps 2 to 5)
AccumulatedFlow(input) ==
    TotalFlow(HoodStep(DuctStep(ApplianceZoneStep(input), input.duct).value,
                       input.hood)).value

PassesDuctStep(input) ==
    DuctStep(ApplianceZoneStep(input), input.duct).status = "ok"

\* C4: for every flow number below 1 or above 22 the selector fails with
\* the range error; a hazard area whose accumulated total flow is out of
\* range yields that error and nothing else (no quote, BOM, breakdown or
\* warnings).
C4_OutOfRangeFails ==
    /\ (cylinder_config # Idle
        /\ (total_flow_number < 1 * FlowDen
            \/ total_flow_number > 22 * FlowDen))
       => cylinder_config = Raise("flow_number_range")
    /\ (design_output # Idle /\ PassesDuctStep(design_input)
        /\ ~InRange(AccumulatedFlow(design_input) * FlowDen))
       => /\ design_output = Raise("flow_number_range")
          /\ DOMAIN design_output = {"status", "error"}

\* Scenario B: a hazard area that accumulates exactly 23 was designed
C4_Flow23Fails ==
    /\ design_output = Raise("flow_number_range")
    /\ PassesDuctStep(design_input)
    /\ AccumulatedFlow(design_input) = 23

RuleOfCategory ==
    \/ rule_call = "design_fryer_nozzles" /\ rule_app.tipo = FRYER
    \/ rule_call = "design_griddle_nozzles" /\ rule_app.tipo = GRIDDLE
    \/ rule_call = "design_range_nozzles"
       /\ rule_app.tipo \in {RANGE_2B, RANGE_4B}

\* C5: for every appliance of the four categories, with any width, depth
\* and vat count, every quantity returned by its category's rule is an
\* integer >= 1.
C5_RuleQuantitiesAtLeastOne ==
    RuleOfCategory
    => \A i \in 1..Len(rule_noz) :
           rule_noz[i].qty \in Int /\ rule_noz[i].qty >= 1

\* the number of units of a code in a BOM, over all its items
RECURSIVE UnitsOf(_, _)
UnitsOf(bom, code) ==
    IF bom = <<>> THEN 0
    ELSE (IF Head(bom).part.code = code THEN Head(bom).quantity ELSE 0)
         + UnitsOf(Tail(bom), code)

RECURSIVE UnitsOfAll(_, _)
UnitsOfAll(bom_list, code) ==
    IF bom_list = <<>> THEN 0
    ELSE UnitsOf(Head(bom_list), code) + UnitsOfAll(Tail(bom_list), code)

Holds(bom, code) == \E j \in 1..Len(bom) : bom[j].part.code = code

OneItemPerCode(bom) ==
    /\ \A j, k \in 1..Len(bom) :
           bom[j].part.code = bom[k].part.code => j = k
    /\ \A j \in 1..Len(bom) :
           bom[j].quantity \in Int /\ bom[j].quantity >= 1

\* C6: every BOM built by add_bom_item calls from an empty list, and every
\* BOM returned by merge_boms over such lists, holds at most one item per
\* part code and only quantities >= 1; a call with quantity <= 0 leaves
\* the BOM as it was.
C6_OneItemPerCode ==
    /\ [](/\ \A i \in 1..Len(boms) : OneItemPerCode(boms[i])
          /\ merged # Idle => OneItemPerCode(merged.bom))
    /\ [][(call'.op = "add_bom_item" /\ call'.qty <= 0) => boms' = boms]_vars

\* merge_boms returned for two lists that share a code, one of them holding
\* two accumulated units of it
C6_MergedSharedCode ==
    /\ call.op = "merge_boms"
    /\ Len(boms) >= 2
    /\ \E j \in 1..Len(boms[1]), k \in 1..Len(boms[2]) :
           /\ boms[1][j].part.code = boms[2][k].part.code
           /\ boms[1][j].quantity >= 2

\* C7: the BOM returned by merge_boms holds a part code exactly when some
\* input BOM holds it, with the sum of its quantities over all input BOMs.
C7_MergeSumsQuantities ==
    merged # Idle
    => \A code \in CatalogCodes :
           /\ Holds(merged.bom, code) <=> \E i \in 1..Len(boms) :
                                               Holds(boms[i], code)
           /\ UnitsOf(merged.bom, code) = UnitsOfAll(boms, code)

\* Scenario E: two areas with one assembly service and one cartridge each
C7_ScenarioE ==
    /\ merged # Idle
    /\ Len(boms) = 2
    /\ \A i \in 1..2 :
           /\ Len(boms[i]) = 2
           /\ UnitsOf(boms[i], "SERV-MONT-R102") = 1
           /\ UnitsOf(boms[i], "423493") = 1
    /\ Len(merged.bom) = 2
    /\ UnitsOf(merged.bom, "SERV-MONT-R102") = 2
    /\ UnitsOf(merged.bom, "423493") = 2

\* sum of unit price x quantity over the items of a BOM
RECURSIVE PricedUnits(_, _)
PricedUnits(bom, n) ==
    IF n = 0 THEN 0
    ELSE PricedUnits(bom, n - 1) + bom[n].part.unit_price * bom[n].quantity

Abs(x) == IF x < 0 THEN 0 - x ELSE x

QuoteAddsUp(quote) ==
    /\ quote.subtotal = PricedUnits(quote.bom, Len(quote.bom))
    /\ quote.iva_amount \in Int
    /\ 2 * Abs(quote.iva_amount * quote.iva_rate.den
               - quote.subtotal * quote.iva_rate.num) <= quote.iva_rate.den
    /\ quote.total = quote.subtotal + quote.iva_amount
    /\ quote.iva_rate.num = 0 => quote.total = quote.subtotal

\* C8: in every quote produced (each area's and the project's), subtotal is
\* the sum of unit price x quantity over the quote's own BOM, the tax is
\* subtotal x rate rounded to a whole unit, total is subtotal + tax, and
\* total = subtotal at rate 0.
C8_QuotesAddUp ==
    project_output.status = "ok"
    => /\ QuoteAddsUp(project_output.quote_global)
       /\ project_output.quote_global.iva_rate = project_input.iva_rate
       /\ \A i \in 1..Len(project_output.areas) :
              /\ QuoteAddsUp(project_output.areas[i].quote)
              /\ project_output.areas[i].quote.iva_rate
                     = project_input.iva_rate

\* a project of two areas whose tax was rounded up from a fraction
C8_RoundedUp ==
    /\ project_output.status = "ok"
    /\ Len(project_output.areas) = 2
    /\ LET q == project_output.quote_global
       IN /\ q.subtotal > 0
          /\ q.iva_amount * q.iva_rate.den > q.subtotal * q.iva_rate.num

\* C9 as stated: every hazard area whose duct perimeter exceeds 2540 mm
\* fails with the range error of the duct step.
C9_Over2540AlwaysFails ==
    (design_output # Idle /\ design_input.duct.perimetro_mm > 2540)
    => design_output = Raise("duct_perimeter")

\* C9 amended: every hazard area whose duct perimeter exceeds 2540 mm and
\* whose duct count is at least 1 fails with the range error of the duct
\* step and yields nothing else, whatever total flow its nozzles would
\* accumulate.
C9_Over2540WithDuctsFails ==
    (design_output # Idle /\ design_input.duct.perimetro_mm > 2540
     /\ design_input.duct.cantidad > 0)
    => /\ design_output = Raise("duct_perimeter")
       /\ DOMAIN design_output = {"status", "error"}

\* the duct error was raised for an area whose appliances alone put the
\* total flow out of range
C9_DuctErrorBeforeFlowError ==
    /\ design_output = Raise("duct_perimeter")
    /\ design_input.duct.perimetro_mm = 3000
    /\ design_input.design_mode = APPLIANCE_SPECIFIC
    /\ design_input.appliances = <<FreidoraDoble>>

\* C10: with perimeter <= 0 or duct count <= 0 the breakdown has no duct
\* nozzle; a perimeter <= 1270 adds exactly `duct count` 439839 and no
\* 439840; a perimeter in (1270, 2540] adds exactly `duct count` 439840 and
\* no 439839.
C10_DuctNozzles ==
    design_output.status = "ok"
    => LET duct == design_input.duct
           breakdown == design_output.nozzle_breakdown
       IN /\ (duct.perimetro_mm <= 0 \/ duct.cantidad <= 0)
                => /\ DictIndex(breakdown, "439839") = 0
                   /\ DictIndex(breakdown, "439840") = 0
          /\ (duct.perimetro_mm > 0 /\ duct.cantidad > 0
              /\ duct.perimetro_mm <= 1270)
                => /\ DictGet(breakdown, "439839") = duct.cantidad
                   /\ DictIndex(breakdown, "439840") = 0
          /\ (duct.perimetro_mm > 1270 /\ duct.cantidad > 0
              /\ duct.perimetro_mm <= 2540)
                => /\ DictGet(breakdown, "439840") = duct.cantidad
                   /\ DictIndex(breakdown, "439839") = 0

\* an area with two ducts of 1270 mm was designed: two small-duct nozzles
C10_TwoDuctsOf1270 ==
    /\ design_output.status = "ok"
    /\ design_input.duct = Duct(1270, 2)
    /\ DictGet(design_output.nozzle_breakdown, "439839") = 2

\* C11: in overlapping mode the count of 439845 is
\* max(1, ceil(hood length / 600 mm)), and the breakdown, total flow,
\* cylinder configuration and BOM are those of the same hood, duct and
\* options with any other appliance list (here: the empty list).
C11_OverlappingCount ==
    (design_output.status = "ok" /\ design_input.design_mode = OVERLAPPING)
    => LET bare == design_r102_system(
                       [design_input EXCEPT !.appliances = <<>>],
                       design_output.quote.iva_rate)
       IN /\ DictGet(design_output.nozzle_breakdown, "439845")
                = Max(1, Ceil(design_input.hood.largo_mm, 600))
          /\ bare.status = "ok"
          /\ design_output.nozzle_breakdown = bare.nozzle_breakdown
          /\ design_output.total_flow_number = bare.total_flow_number
          /\ design_output.cylinder_config = bare.cylinder_config
          /\ design_output.quote.bom = bare.quote.bom

\* the input with every advisory field (nozzle height, surface height and
\* start offset of each appliance, floor height of the hood) set to one
\* fixed value: two inputs that differ only in advisory fields share it
WithoutAdvisory(input) ==
    [input EXCEPT
        !.hood.altura_suelo_mm = 2100,
        !.appliances = [i \in 1..Len(input.appliances) |->
            [input.appliances[i] EXCEPT
                !.altura_boquilla_sobre_superficie_mm = 1100,
                !.altura_superficie_mm = 900,
                !.pos_inicio_mm = 0]]]

\* C12: a run and the run of the input that differs from it only in the
\* advisory fields both fail or both succeed, and when they succeed they
\* have the same nozzle breakdown, total flow number, cylinder
\* configuration, BOM and quote (the warnings are not compared).
C12_AdvisoryFieldsDoNotChangeResult ==
    design_output # Idle
    => LET other == design_r102_system(
                        WithoutAdvisory(design_input),
                        IF design_output.status = "ok"
                        THEN design_output.quote.iva_rate
                        ELSE [num |-> 0, den |-> 100])
       IN IF design_output.status = "raise" THEN other.status = "raise"
          ELSE /\ other.status = "ok"
               /\ design_output.nozzle_breakdown = other.nozzle_breakdown
               /\ design_output.total_flow_number = other.total_flow_number
               /\ design_output.cylinder_config = other.cylinder_config
               /\ design_output.quote = other.quote

\* a successful appliance-specific run with a nozzle too low, under a hood
\* too high above the surfaces: warnings were issued and the advisory-free
\* input is a different one
C12_WarnedRunSucceeded ==
    /\ design_output.status = "ok"
    /\ design_input.design_mode = APPLIANCE_SPECIFIC
    /\ design_input.hood.altura_suelo_mm = 2401
    /\ \E i \in 1..Len(design_input.appliances) :
           design_input.appliances[i] = Cocina2Baja
    /\ Len(design_output.warnings) >= 2
    /\ WithoutAdvisory(design_input) # design_input

\* the three advisory checks, by name: TRUE when the check is violated
Violated(check, hood, app) ==
    IF check = "altura_boquilla"
    THEN app.altura_boquilla_sobre_superficie_mm < 800
         \/ app.altura_boquilla_sobre_superficie_mm > 1500
    ELSE IF check = "distancia_campana"
    THEN hood.altura_suelo_mm - app.altura_superficie_mm < 400
         \/ hood.altura_suelo_mm - app.altura_superficie_mm > 1500
    ELSE app.pos_inicio_mm < 0
         \/ app.pos_inicio_mm + app.ancho_mm > hood.largo_mm

AdvisoryChecks == {"altura_boquilla", "distancia_campana", "fuera_de_campana"}

\* C13: on every successful run, in either mode, each warning names a
\* violated check of an appliance, each violated check of each appliance has
\* exactly one warning, the warnings follow the appliance order, and the
\* list is empty exactly when every appliance passes the three checks.
C13_OneWarningPerViolatedCheck ==
    design_output.status = "ok"
    => LET warnings == design_output.warnings
           hood == design_input.hood
           apps == design_input.appliances
       IN /\ \A k \in 1..Len(warnings) :
                 /\ warnings[k].appliance \in 1..Len(apps)
                 /\ warnings[k].check \in AdvisoryChecks
                 /\ Violated(warnings[k].check, hood,
                             apps[warnings[k].appliance])
          /\ \A i \in 1..Len(apps) : \A check \in AdvisoryChecks :
                 Violated(check, hood, apps[i])
                 => Cardinality({k \in 1..Len(warnings) :
                        warnings[k] = Warning(check, i)}) = 1
          /\ \A k \in 1..Len(warnings) : \A l \in k..Len(warnings) :
                 warnings[k].appliance <= warnings[l].appliance
          /\ (warnings = <<>>) <=>
                 \A i \in 1..Len(apps) : \A check \in AdvisoryChecks :
                     ~Violated(check, hood, apps[i])

\* an overlapping-mode run that succeeded with warnings of two appliances,
\* the first one for the hood being too high above the surface
C13_WarningsOfTwoAppliances ==
    /\ design_output.status = "ok"
    /\ design_input.design_mode = OVERLAPPING
    /\ Len(design_input.appliances) = 2
    /\ Len(design_output.warnings) >= 3
    /\ design_output.warnings[1] = Warning("distancia_campana", 1)
    /\ design_output.warnings[Len(design_output.warnings)].appliance = 2

\* the hazard area at position i of the project fails when run alone
AreaFails(i) ==
    design_r102_system(project_input.hazard_areas[i],
                       project_input.iva_rate).status = "raise"

\* C14: when some hazard area of the project fails, at any position,
\* design_project raises and returns nothing: no merged BOM, no project
\* quote, no per-area results.
C14_AnyFailedAreaFailsProject ==
    (project_output # Idle
     /\ \E i \in 1..Len(project_input.hazard_areas) : AreaFails(i))
    => /\ project_output.status = "raise"
       /\ DOMAIN project_output = {"status", "error"}

\* a project whose first area succeeds alone and whose second area fails
\* was run, and raised
C14_SecondAreaFailed ==
    /\ project_output.status = "raise"
    /\ Len(project_input.hazard_areas) = 2
    /\ ~AreaFails(1)
    /\ AreaFails(2)

\* in a BOM, cylinders of each size and agent tanks of that size are as many
CylindersPairedWithAgent(bom) ==
    /\ UnitsOf(bom, "429864") = UnitsOf(bom, "79694")
    /\ UnitsOf(bom, "429862") = UnitsOf(bom, "79372")

\* C15: in every area BOM the units of 429864 equal the units of 79694 and
\* the selected number of 1.5-gal cylinders, the units of 429862 equal the
\* units of 79372 and the selected number of 3.0-gal cylinders (an absent
\* item counting as 0); the two equalities of cylinders and agent also hold
\* in the merged BOM of the project.
C15_CylindersPairedWithAgent ==
    project_output.status = "ok"
    => /\ \A i \in 1..Len(project_output.areas) :
              LET area == project_output.areas[i]
              IN /\ CylindersPairedWithAgent(area.quote.bom)
                 /\ UnitsOf(area.quote.bom, "429864")
                        = area.cylinder_config.num_cylinders_15
                 /\ UnitsOf(area.quote.bom, "429862")
                        = area.cylinder_config.num_cylinders_30
       /\ CylindersPairedWithAgent(project_output.quote_global.bom)

\* a project of an area with two 3.0-gal cylinders and an area with one
\* cylinder of each size: three large and one small in the merged BOM
C15_ThreeLargeOneSmall ==
    /\ project_output.status = "ok"
    /\ Len(project_output.areas) = 2
    /\ project_output.areas[1].cylinder_config.num_cylinders_30 = 2
    /\ project_output.areas[2].cylinder_config.num_cylinders_15 = 1
    /\ project_output.areas[2].cylinder_config.num_cylinders_30 = 1
    /\ UnitsOf(project_output.quote_global.bom, "79372") = 3
    /\ UnitsOf(project_output.quote_global.bom, "79694") = 1

\* the items of a BOM that carry one of the codes
ItemsOf(bom, codes) == {j \in 1..Len(bom) : bom[j].part.code \in codes}

CartridgeCodes == {"423429", "423435", "423493"}

\* C16: the BOM of every successful hazard area holds exactly one cartridge
\* item, of quantity 1 and of the selected cartridge code; the service item
\* with quantity 1 exactly when the service is requested; the extinguisher
\* item with the requested count exactly when extinguishers are requested
\* with count >= 1; one nozzle item per code of the nozzle breakdown with
\* the breakdown's quantity; and no item other than nozzles, cylinders,
\* agent, cartridge, service and extinguisher.
C16_BomContents ==
    design_output.status = "ok"
    => LET bom == design_output.quote.bom
           breakdown == design_output.nozzle_breakdown
           ext == design_input.incluir_extintor_k
                  /\ design_input.cantidad_extintores_k >= 1
       IN /\ \E j \in 1..Len(bom) :
                 /\ ItemsOf(bom, CartridgeCodes) = {j}
                 /\ bom[j].quantity = 1
                 /\ bom[j].part.code
                        = design_output.cylinder_config.cartridge_code
          /\ Holds(bom, "SERV-MONT-R102")
                 <=> design_input.incluir_servicio_montaje
          /\ Holds(bom, "SERV-MONT-R102")
                 => /\ Cardinality(ItemsOf(bom, {"SERV-MONT-R102"})) = 1
                    /\ UnitsOf(bom, "SERV-MONT-R102") = 1
          /\ Holds(bom, "KEXT-6L") <=> ext
          /\ Holds(bom, "KEXT-6L")
                 => /\ Cardinality(ItemsOf(bom, {"KEXT-6L"})) = 1
                    /\ UnitsOf(bom, "KEXT-6L")
                           = design_input.cantidad_extintores_k
          /\ \A k \in 1..Len(breakdown) :
                 \E j \in 1..Len(bom) :
                     /\ ItemsOf(bom, {breakdown[k].code}) = {j}
                     /\ bom[j].quantity = breakdown[k].qty
          /\ \A j \in 1..Len(bom) :
                 bom[j].part.code \in
                     {breakdown[k].code : k \in 1..Len(breakdown)}
                     \cup {"429864", "429862", "79694", "79372"}
                     \cup CartridgeCodes \cup {"SERV-MONT-R102", "KEXT-6L"}

\* the permutations of 1..n
Orderings(n) ==
    {p \in [1..n -> 1..n] : \A i, j \in 1..n : p[i] = p[j] => i = j}

\* the (part code, quantity) pairs of a BOM
PairsOf(bom) == {<<bom[j].part.code, bom[j].quantity>> : j \in 1..Len(bom)}

\* C17: merge_boms of any permutation of the list of BOMs yields the same
\* set of (part code, quantity) pairs as merge_boms of the list, and the
\* same subtotal, tax and total at every rate.
C17_MergeIsCommutative ==
    merged # Idle
    => \A p \in Orderings(Len(boms)) :
           LET other == merge_boms([i \in 1..Len(boms) |-> boms[p[i]]])
           IN /\ PairsOf(other) = PairsOf(merged.bom)
              /\ \A r \in Rates :
                     /\ QuoteResult(other, r).subtotal
                            = QuoteResult(merged.bom, r).subtotal
                     /\ QuoteResult(other, r).iva_amount
                            = QuoteResult(merged.bom, r).iva_amount
                     /\ QuoteResult(other, r).total
                            = QuoteResult(merged.bom, r).total

\* two lists that hold different quantities of a shared code were merged,
\* and merging them in the other order returns the items in another order
C17_OrderOfItemsDiffers ==
    /\ merged # Idle
    /\ Len(boms) = 2
    /\ \E j \in 1..Len(boms[1]), k \in 1..Len(boms[2]) :
           /\ boms[1][j].part.code = boms[2][k].part.code
           /\ boms[1][j].quantity # boms[2][k].quantity
    /\ merge_boms(<<boms[2], boms[1]>>) # merged.bom

\* C18: on every successful project, the list of area results is as long as
\* the list of hazard areas, and its i-th result is the result of
\* design_r102_system on the i-th hazard area alone at the project's rate.
C18_AreasInOrderAndIndependent ==
    project_output.status = "ok"
    => /\ Len(project_output.areas) = Len(project_input.hazard_areas)
       /\ \A i \in 1..Len(project_output.areas) :
              project_output.areas[i]
                  = design_r102_system(project_input.hazard_areas[i],
                                       project_input.iva_rate)

\* a project of two areas with different results, at a rate other than the
\* default one, was designed
C18_TwoDifferentAreas ==
    /\ project_output.status = "ok"
    /\ Len(project_output.areas) = 2
    /\ project_input.iva_rate # [num |-> 19, den |-> 100]
    /\ project_output.areas[1].nombre_area = "Campana 1"
    /\ project_output.areas[2].nombre_area = ""
    /\ project_output.areas[1].quote.bom # project_output.areas[2].quote.bom
    /\ project_output.areas[1].quote.iva_amount > 0

\* C19: for every fryer, design_fryer_nozzles returns exactly one entry, of
\* code 439841, whose quantity is
\* ceil(width x depth x max(1, vat count) / 0.239 m2), doubled exactly when
\* the longer of width and depth exceeds 644 mm.
C19_FryerQuantity ==
    (rule_call = "design_fryer_nozzles" /\ rule_app.tipo = FRYER)
    => LET base == Ceil(rule_app.ancho_mm * rule_app.fondo_mm
                            * Max(1, rule_app.num_vats), 239000)
           lado_largo == Max(rule_app.ancho_mm, rule_app.fondo_mm)
       IN rule_noz = <<[code |-> "439841",
                        qty |-> IF lado_largo > 644 THEN 2 * base
                                ELSE base]>>

\* C20: after design_project has returned, the BOM of each area's quote
\* holds the items and quantities it held when design_r102_system returned
\* it, and the area's subtotal is the sum of unit price x quantity over
\* that BOM.
C20_AreaBomsUntouched ==
    project_output.status = "ok"
    => \A i \in 1..Len(project_output.areas) :
           LET quote == project_output.areas[i].quote
               returned == design_r102_system(project_input.hazard_areas[i],
                                              project_input.iva_rate).quote
           IN /\ Len(quote.bom) = Len(returned.bom)
              /\ \A j \in 1..Len(quote.bom) :
                     /\ quote.bom[j].part = returned.bom[j].part
                     /\ quote.bom[j].quantity = returned.bom[j].quantity
              /\ quote.subtotal = PricedUnits(quote.bom, Len(quote.bom))

\* a project of two areas that share a part code was designed: the merged
\* BOM holds more units of it than either area
C20_SharedCodeSummed ==
    /\ project_output.status = "ok"
    /\ Len(project_output.areas) = 2
    /\ \E code \in CatalogCodes :
           LET one == UnitsOf(project_output.areas[1].quote.bom, code)
               two == UnitsOf(project_output.areas[2].quote.bom, code)
           IN /\ one >= 1
              /\ two >= 1
              /\ UnitsOf(project_output.quote_global.bom, code) = one + two

\* the sum of a field of the quotes of the first n areas of the project
RECURSIVE SumOverAreas(_, _)
SumOverAreas(field, n) ==
    IF n = 0 THEN 0
    ELSE SumOverAreas(field, n - 1) + project_output.areas[n].quote[field]

\* C21: on every successful project, the project subtotal is the sum of the
\* areas' subtotals, and the project tax is that subtotal times the
\* project's rate rounded to the nearest whole unit (a tie to the even
\* one), computed on the subtotal and not as the sum of the areas' taxes.
C21_ProjectSubtotalAndTax ==
    project_output.status = "ok"
    => LET quote == project_output.quote_global
           rate == project_input.iva_rate
           sum == SumOverAreas("subtotal", Len(project_output.areas))
           exact == quote.iva_amount * rate.den - sum * rate.num
       IN /\ quote.subtotal = sum
          /\ quote.iva_rate = rate
          /\ 2 * Abs(exact) <= rate.den
          /\ 2 * Abs(exact) = rate.den => quote.iva_amount % 2 = 0
          /\ quote.total = sum + quote.iva_amount

\* a project of two areas whose tax differs from the sum of the taxes of
\* its areas was designed
C21_TaxIsNotSumOfAreaTaxes ==
    /\ project_output.status = "ok"
    /\ Len(project_output.areas) = 2
    /\ project_output.quote_global.subtotal
           = SumOverAreas("subtotal", 2)
    /\ project_output.quote_global.iva_amount
           # SumOverAreas("iva_amount", 2)

\* the dimensions and counts of a hazard area are all non-negative
NonNegative(input) ==
    /\ input.hood.largo_mm >= 0
    /\ input.hood.fondo_mm >= 0
    /\ input.duct.perimetro_mm >= 0
    /\ input.duct.cantidad >= 0
    /\ input.cantidad_extintores_k >= 0
    /\ \A i \in 1..Len(input.appliances) :
           /\ input.appliances[i].ancho_mm >= 0
           /\ input.appliances[i].fondo_mm >= 0
           /\ input.appliances[i].num_vats >= 0

\* C22: for every hazard area with non-negative dimensions and counts the
\* total flow number the pipeline accumulates is a whole number >= 1, so
\* the cylinder selection of the pipeline fails only for a total above 22.
C22_PipelineFlowAtLeastOne ==
    (design_output # Idle /\ NonNegative(design_input))
    => /\ design_output.status = "ok"
              => /\ design_output.total_flow_number \in Nat
                 /\ design_output.total_flow_number >= 1
       /\ PassesDuctStep(design_input)
              => /\ AccumulatedFlow(design_input) \in Nat
                 /\ AccumulatedFlow(design_input) >= 1
       /\ design_output = Raise("flow_number_range")
              => AccumulatedFlow(design_input) > 22

\* an area with a hood of length 0, no duct nozzle and a fryer of width 0
\* was designed: the single plenum nozzle gives total flow 1
C22_OnlyThePlenumNozzle ==
    /\ design_output.status = "ok"
    /\ NonNegative(design_input)
    /\ design_input.hood.largo_mm = 0
    /\ design_input.duct.cantidad = 0
    /\ design_input.appliances = <<FreidoraSinAncho>>
    /\ design_input.design_mode = APPLIANCE_SPECIFIC
    /\ design_output.total_flow_number = 1

====
